---- MODULE Spec2Model ----
(***************************************************************************)
(* lila: a single-node object store.  The blob store (storage/filesystem.rs)*)
(* keeps one file per key at a hash-derived path, the metadata catalog     *)
(* (storage/metadata.rs) keeps one row per key, and the handlers           *)
(* (handlers/objects.rs) coordinate the two.  Every await point of a       *)
(* handler is a separate step of its task.                                 *)
(***************************************************************************)
EXTENDS Integers, Sequences, FiniteSets, TLC

\* ------------------------------------------------------------------ bounds
MaxBytes == 2        \* the size cap max_size handed to write_stream, in bytes
MaxPuts == 2         \* Put requests the server takes in one behaviour
ListLimit == 2       \* MetadataStore::list's limit.unwrap_or(1000), at the scale
                     \* of the catalogs of the model
SearchLimit == 2     \* MetadataStore::search's limit.unwrap_or(100), likewise

\* ------------------------------------------------------------- value sets
\* The characters of keys and prefixes, in the order of their byte values.
Chars == <<"%", "/", "A", "_", "a", "b">>
Keys == {<<"a">>, <<"a", "/", "b">>}
\* The keys of the stores the catalog queries and the folder delete run on.
StoreKeys ==
    {<<"a", "/", "A">>, <<"a", "/", "a">>, <<"a", "/", "b">>, <<"a", "b">>,
     <<"A", "/", "b">>}
\* Path(prefix) of delete_folder.
Prefixes == {<<"a">>, <<"a", "/">>, <<"A">>, <<"b">>, <<"_">>, <<"%">>}
\* A query parameter that is not given (Option::None).
NoParam == <<"none">>
NoSize == -1
\* ListQuery: prefix, delimiter, limit.
ListPrefixes == {NoParam, <<"a">>, <<"a", "/">>, <<"A", "/">>}
Delimiters == {NoParam, <<"a">>, <<>>}
Limits == {NoSize, 1, 5}
\* SearchQuery: key, content_type, min_size, max_size (limit is among Limits).
Patterns == {NoParam, <<"b">>, <<"A">>, <<"_">>}
ContentTypes == {NoParam, <<"text/plain">>}
MinSizes == {NoSize, 1}
MaxSizes == {NoSize, 1}
NoKey == <<>>
NoHeader == "none"
Headers == {NoHeader, "text/plain"}
TaskIds == {1, 2}
SeqTasks == {1}
NoFile == <<-1>>
NoRec == [none |-> TRUE]
NoPut == [res |-> "none", data |-> <<>>]

\* A body chunk is a non-empty run of bytes (a byte that was never written, in
\* a hole of a file, reads as 0); a stream item is a chunk or an error.
Chunks == {<<1>>, <<2, 2>>}
ErrItem == [err |-> TRUE, data |-> <<>>]
Items == {[err |-> FALSE, data |-> c] : c \in Chunks} \cup {ErrItem}
EndOfStream == [err |-> FALSE, data |-> <<>>]

\* ---------------------------------------------------------- pure functions
\* sha2::Sha256 as an incremental fold that is injective on the bounded inputs.
HashBase == Len(Chars) + 2
HasherNew == 0

RECURSIVE Absorb(_, _)
Absorb(h, data) ==
    IF data = <<>> THEN h
    ELSE Absorb(h * HashBase + data[1] + 1, Tail(data))

\* (a hasher made anew for every chunk)
HasherUpdate_Restart(h, data) == Absorb(HasherNew, data)

\* hasher.update(&chunk)
HasherUpdate(h, data) == Absorb(h, data)

Finalize(h) == h
Digest(data) == Finalize(HasherUpdate(HasherNew, data))

CharCode(c) == CHOOSE i \in 1..Len(Chars) : Chars[i] = c
AsBytes(key) == [i \in 1..Len(key) |-> CharCode(key[i])]

\* FileStorage::get_object_path: base_path/hash[..2]/hash of the key's hash.
get_object_path(key) ==
    LET hash == Digest(AsBytes(key)) IN <<hash % 256, hash>>

Paths == {get_object_path(k) : k \in Keys}
StorePaths == {get_object_path(k) : k \in StoreKeys}

ApplicationOctetStream == "application/octet-stream"
ContentTypeOf(header) == IF header = NoHeader THEN ApplicationOctetStream ELSE header

\* ------------------------------------------------------------------- state
VARIABLES
    catalog,   \* the rows of table objects
    files,     \* blob directory: path -> bytes of the file there, or NoFile
    tasks,     \* request tasks: the handler each runs and where it stands
    puts,      \* Put requests taken so far
    clock,     \* ObjectMetadata built so far (fresh ids, Utc::now)
    lastPut    \* key -> how the last Put or Delete of the key ended, none begun since

vars == <<catalog, files, tasks, puts, clock, lastPut>>

\* fd: "closed", "linked" (the open file is the one at the key's path) or
\* "unlinked" (the path was removed while the handle stayed open).
\* cat0, blob0, fs0: the catalog and the files when the request began;
\* last0: lastPut of the key when a Get, Head or Delete began.
IdleTask ==
    [op |-> "idle", pc |-> "idle", key |-> NoKey, header |-> NoHeader,
     sent |-> <<>>, chunk |-> <<>>, fd |-> "closed",
     total_size |-> 0, written |-> 0, hasher |-> HasherNew,
     ws |-> "none", meta |-> NoRec, res |-> "none", body |-> <<>>,
     opened |-> FALSE, cat0 |-> {}, blob0 |-> NoFile, last0 |-> NoPut,
     prefix |-> NoKey, objects |-> <<>>, deleted |-> 0, fs0 |-> <<>>,
     query |-> NoRec, filtered_objects |-> <<>>, prefix_vec |-> <<>>, total |-> 0,
     stats |-> <<>>]

Init ==
    /\ catalog = {}
    /\ files = [p \in Paths |-> NoFile]
    /\ tasks = [t \in TaskIds |-> IdleTask]
    /\ puts = 0
    /\ clock = 0
    /\ lastPut = [k \in Keys |-> NoPut]

\* ------------------------------------------------------------ file system
Exists(path) == files[path] # NoFile

\* write at offset off: bytes before it are kept (a hole reads as zero bytes)
WriteAt(old, off, data) ==
    LET n == IF Len(old) > off + Len(data) THEN Len(old) ELSE off + Len(data)
    IN  [i \in 1..n |->
            IF i > off /\ i <= off + Len(data) THEN data[i - off]
            ELSE IF i <= Len(old) THEN old[i] ELSE 0]

\* A write through a handle reaches the file at the path while it is linked.
WriteThrough(fs, task, data) ==
    IF task.fd = "linked"
    THEN [fs EXCEPT ![get_object_path(task.key)] = WriteAt(@, task.total_size, data)]
    ELSE fs

\* fs::remove_file(&path): the handles open on the file keep it, unlinked;
\* a reader keeps the bytes it can still read.
Orphaned(ts, fs, path) ==
    [t \in TaskIds |->
        IF ts[t].fd = "linked" /\ get_object_path(ts[t].key) = path
        THEN [ts[t] EXCEPT !.fd = "unlinked",
                           !.body = IF ts[t].op = "get" THEN fs[path] ELSE @]
        ELSE ts[t]]

\* --------------------------------------------------------------- catalog
\* MetadataStore::get: SELECT ... WHERE key = ?
Get(cat, key) ==
    IF \E r \in cat : r.key = key THEN CHOOSE r \in cat : r.key = key ELSE NoRec

\* (ON CONFLICT(key) DO NOTHING)
Insert_Ignore(cat, m) == IF \E r \in cat : r.key = m.key THEN cat ELSE cat \cup {m}

\* MetadataStore::insert: INSERT ... ON CONFLICT(key) DO UPDATE SET size,
\* content_type, etag, created_at (the id of an existing row is not in the SET list).
Insert(cat, m) ==
    IF \E r \in cat : r.key = m.key
    THEN {IF r.key = m.key
          THEN [r EXCEPT !.size = m.size, !.content_type = m.content_type,
                         !.etag = m.etag, !.created_at = m.created_at]
          ELSE r : r \in cat}
    ELSE cat \cup {m}

\* (every row whose key begins with the key, as delete_by_prefix does)
DeleteRow_Prefix(cat, key) ==
    {r \in cat : ~(Len(key) <= Len(r.key) /\ SubSeq(r.key, 1, Len(key)) = key)}

\* MetadataStore::delete: DELETE FROM objects WHERE key = ?
DeleteRow(cat, key) == {r \in cat : r.key # key}
RowsAffected(cat, key) == Cardinality({r \in cat : r.key = key})

\* ------------------------------------------------------------------ tasks
\* A task that returned: its file handle, if any, is dropped.
Finish(task, result) == [task EXCEPT !.pc = "done", !.res = result, !.fd = "closed"]

\* The slot a new request takes among the tasks T a specification runs.
CanStart(T, t) ==
    /\ t \in T
    /\ tasks[t].op = "idle"
    /\ \A u \in T : u < t => tasks[u].op # "idle"

Begin(t, op, key, pc) ==
    [IdleTask EXCEPT !.op = op, !.pc = pc, !.key = key, !.cat0 = catalog,
                     !.blob0 = files[get_object_path(key)],
                     !.last0 = IF op = "put" THEN NoPut ELSE lastPut[key]]

\* ------------------------------------------------------- Put (put_object)
StartPut(T, t) ==
    /\ CanStart(T, t)
    /\ puts < MaxPuts
    /\ puts' = puts + 1
    /\ \E k \in Keys :
          /\ tasks' = [tasks EXCEPT ![t] = Begin(t, "put", k, "create")]
          /\ lastPut' = [lastPut EXCEPT ![k] = NoPut]
    /\ UNCHANGED <<catalog, files, clock>>

\* (the error is replaced by the catch-all)
Propagate_Internal(e) == "Internal"

\* put_object's `?` on the result of write_stream: the error is returned as it is.
Propagate(e) == e

\* write_stream failed with e: what the task is when put_object has returned.
WriteFailed(task, e) == Finish([task EXCEPT !.ws = e], Propagate(e))

\* File::create(&path): the file that is there is truncated, else a new one made.
Create(fs, path) == [fs EXCEPT ![path] = <<>>]

\* write_stream: create_dir_all(parent) and File::create(&path) succeed.
PutCreate(t) ==
    /\ tasks[t].op = "put" /\ tasks[t].pc = "create"
    /\ files' = Create(files, get_object_path(tasks[t].key))
    /\ tasks' = [tasks EXCEPT ![t].fd = "linked", ![t].pc = "recv"]
    /\ UNCHANGED <<catalog, puts, clock, lastPut>>

\* create_dir_all or File::create fails: `?` returns the I/O error.
PutCreateFail(t) ==
    /\ tasks[t].op = "put" /\ tasks[t].pc = "create"
    /\ tasks' = [tasks EXCEPT ![t] = WriteFailed(@, "Io")]
    /\ UNCHANGED <<catalog, files, puts, clock, lastPut>>

\* (the comparison rejects a stream that reaches the cap exactly)
CapExceeded_Ge(total_size, len, max_size) == total_size + len >= max_size

\* total_size + chunk.len() > max_size
CapExceeded(total_size, len, max_size) == total_size + len > max_size

\* (the partial file is left where it is)
RemovePartial_Skip(fs, path) == fs

\* drop(file); let _ = fs::remove_file(&path).await (its result is ignored;
\* the removal of a file the task has just created and written is taken to succeed)
RemovePartial(fs, path) == [fs EXCEPT ![path] = NoFile]

\* What stream.next() can yield: another item or the end of the body.
NextItems == Items \cup {EndOfStream}

\* One turn of `while let Some(chunk) = stream.next().await`, up to the write:
\* the stream ends, yields an error, or yields a chunk the cap check takes or
\* rejects (drop(file); let _ = fs::remove_file(&path).await).
PutRecv(t) ==
    /\ tasks[t].op = "put" /\ tasks[t].pc = "recv"
    /\ \E item \in NextItems :
          /\ LET me == tasks[t]
                 path == get_object_path(me.key)
                 got == [me EXCEPT !.sent = me.sent \o item.data,
                                   !.chunk = item.data]
             IN  IF item = EndOfStream
                 THEN /\ tasks' = [tasks EXCEPT ![t].pc = "flush"]
                      /\ files' = files
                 ELSE IF item.err
                 THEN /\ tasks' = [tasks EXCEPT ![t] = WriteFailed(got, "Io")]
                      /\ files' = files
                 ELSE IF CapExceeded(me.total_size, Len(item.data), MaxBytes)
                 THEN /\ files' = RemovePartial(files, path)
                      /\ tasks' = [Orphaned(tasks, files, path) EXCEPT ![t] =
                                      WriteFailed(got, "PayloadTooLarge")]
                 ELSE /\ tasks' = [tasks EXCEPT ![t] = [got EXCEPT !.pc = "write"]]
                      /\ files' = files
          /\ lastPut' = IF tasks'[t].ws = "PayloadTooLarge"
                        THEN [lastPut EXCEPT ![tasks[t].key] =
                                 [res |-> "PayloadTooLarge", data |-> <<>>]]
                        ELSE lastPut
    /\ UNCHANGED <<catalog, puts, clock>>

\* (the record of the bytes so far is upserted with every chunk)
PutWrite_Upsert(t) ==
    /\ tasks[t].op = "put" /\ tasks[t].pc = "write"
    /\ LET me == tasks[t]
       IN  /\ files' = WriteThrough(files, me, me.chunk)
           /\ tasks' = [tasks EXCEPT ![t].pc = "recv",
                                     ![t].chunk = <<>>,
                                     ![t].hasher = HasherUpdate(me.hasher, me.chunk),
                                     ![t].total_size = me.total_size + Len(me.chunk),
                                     ![t].written = me.written + Len(me.chunk)]
           /\ catalog' = Insert(catalog,
                  [id |-> clock, key |-> me.key, size |-> me.total_size + Len(me.chunk),
                   content_type |-> ApplicationOctetStream,
                   etag |-> Finalize(HasherUpdate(me.hasher, me.chunk)),
                   created_at |-> clock])
    /\ UNCHANGED <<puts, clock, lastPut>>

\* file.write_all(&chunk) succeeds; hasher.update(&chunk); total_size += chunk.len()
PutWrite(t) ==
    /\ tasks[t].op = "put" /\ tasks[t].pc = "write"
    /\ LET me == tasks[t]
       IN  /\ files' = WriteThrough(files, me, me.chunk)
           /\ tasks' = [tasks EXCEPT ![t].pc = "recv",
                                     ![t].chunk = <<>>,
                                     ![t].hasher = HasherUpdate(me.hasher, me.chunk),
                                     ![t].total_size = me.total_size + Len(me.chunk),
                                     ![t].written = me.written + Len(me.chunk)]
    /\ UNCHANGED <<catalog, puts, clock, lastPut>>

\* file.write_all(&chunk) fails after writing only part of the chunk.
PutWriteFail(t) ==
    /\ tasks[t].op = "put" /\ tasks[t].pc = "write"
    /\ LET me == tasks[t]
       IN  \E n \in 0..(Len(me.chunk) - 1) :
              /\ files' = WriteThrough(files, me, SubSeq(me.chunk, 1, n))
              /\ tasks' = [tasks EXCEPT ![t] =
                              WriteFailed([me EXCEPT !.written = me.written + n], "Io")]
    /\ UNCHANGED <<catalog, puts, clock, lastPut>>

\* The ObjectMetadata put_object builds from what write_stream returned,
\* a fresh Uuid::new_v4() and Utc::now().
NewMetadata(task, now) ==
    [id |-> now, key |-> task.key, size |-> task.total_size,
     content_type |-> ContentTypeOf(task.header),
     etag |-> Finalize(task.hasher), created_at |-> now]

\* file.flush() succeeds, write_stream returns Ok((etag, size)).  The request's
\* content-type header, which nothing reads before this point, is drawn here.
PutFlush(t) ==
    /\ tasks[t].op = "put" /\ tasks[t].pc = "flush"
    /\ clock' = clock + 1
    /\ \E h \in Headers :
          tasks' = [tasks EXCEPT ![t].pc = "insert", ![t].ws = "Ok", ![t].fd = "closed",
                                 ![t].header = h,
                                 ![t].meta = NewMetadata([tasks[t] EXCEPT !.header = h], clock')]
    /\ UNCHANGED <<catalog, files, puts, lastPut>>

PutFlushFail(t) ==
    /\ tasks[t].op = "put" /\ tasks[t].pc = "flush"
    /\ tasks' = [tasks EXCEPT ![t] = WriteFailed(@, "Io")]
    /\ UNCHANGED <<catalog, files, puts, clock, lastPut>>

\* state.metadata.insert(&metadata) succeeds; Ok(Json(metadata))
PutInsert(t) ==
    /\ tasks[t].op = "put" /\ tasks[t].pc = "insert"
    /\ catalog' = Insert(catalog, tasks[t].meta)
    /\ tasks' = [tasks EXCEPT ![t] = Finish(@, "Ok")]
    /\ lastPut' = [lastPut EXCEPT ![tasks[t].key] =
                       [res |-> "Ok", data |-> tasks[t].sent]]
    /\ UNCHANGED <<files, puts, clock>>

PutInsertFail(t) ==
    /\ tasks[t].op = "put" /\ tasks[t].pc = "insert"
    /\ tasks' = [tasks EXCEPT ![t] = Finish(@, "Database")]
    /\ UNCHANGED <<catalog, files, puts, clock, lastPut>>

\* The client disconnects: the handler's future is dropped at an await point
\* after File::create; nothing runs on drop but the close of the file handle.
Cancel(t) ==
    /\ tasks[t].op = "put" /\ tasks[t].pc \in {"recv", "write", "flush", "insert"}
    /\ tasks' = [tasks EXCEPT ![t].pc = "cancelled", ![t].fd = "closed"]
    /\ UNCHANGED <<catalog, files, puts, clock, lastPut>>

\* The response is sent and the task ends.
Retire(t) ==
    /\ tasks[t].pc \in {"done", "cancelled"}
    /\ tasks' = [tasks EXCEPT ![t] = IdleTask]
    /\ UNCHANGED <<catalog, files, puts, clock, lastPut>>

\* ------------------------------------------------------- Get (get_object)
StartGet(T, t) ==
    /\ CanStart(T, t)
    /\ \E k \in Keys : tasks' = [tasks EXCEPT ![t] = Begin(t, "get", k, "lookup")]
    /\ UNCHANGED <<catalog, files, puts, clock, lastPut>>

\* (a missing row does not end the request)
Lookup_FallThrough(task, cat) == [task EXCEPT !.meta = Get(cat, task.key), !.pc = "found"]

\* state.metadata.get(&key).await?.ok_or_else(|| AppError::NotFound(key.clone()))?
Lookup(task, cat) ==
    LET row == Get(cat, task.key)
    IN  IF row = NoRec
        THEN Finish(task, "NotFound")
        ELSE [task EXCEPT !.meta = row, !.pc = "found"]

GetLookup(t) ==
    /\ tasks[t].op = "get" /\ tasks[t].pc = "lookup"
    /\ tasks' = [tasks EXCEPT ![t] = Lookup(tasks[t], catalog)]
    /\ UNCHANGED <<catalog, files, puts, clock, lastPut>>

\* (every error of File::open is passed on as an I/O error)
OpenError_Io(kind) == "Io"

\* FileStorage::open's map_err: ErrorKind::NotFound becomes AppError::NotFound,
\* any other error AppError::Io
OpenError(kind) == IF kind = "NotFound" THEN "NotFound" ELSE "Io"

\* FileStorage::open: File::open(&path), which fails with ErrorKind::NotFound
\* when no file is at the path
GetOpen(t) ==
    /\ tasks[t].op = "get" /\ tasks[t].pc = "found"
    /\ LET path == get_object_path(tasks[t].key)
       IN  tasks' = [tasks EXCEPT ![t] =
                        IF Exists(path)
                        THEN [@ EXCEPT !.opened = TRUE, !.fd = "linked", !.pc = "stream"]
                        ELSE Finish([@ EXCEPT !.opened = TRUE], OpenError("NotFound"))]
    /\ UNCHANGED <<catalog, files, puts, clock, lastPut>>

\* The response body, Body::from_stream(ReaderStream::new(file)), is read out.
GetStream(t) ==
    /\ tasks[t].op = "get" /\ tasks[t].pc = "stream"
    /\ LET me == tasks[t]
           read == IF me.fd = "linked" THEN files[get_object_path(me.key)] ELSE me.body
       IN  tasks' = [tasks EXCEPT ![t] = Finish([me EXCEPT !.body = read], "Ok")]
    /\ UNCHANGED <<catalog, files, puts, clock, lastPut>>

\* --------------------------------------------- Head (get_object_metadata)
StartHead(T, t) ==
    /\ CanStart(T, t)
    /\ \E k \in Keys : tasks' = [tasks EXCEPT ![t] = Begin(t, "head", k, "lookup")]
    /\ UNCHANGED <<catalog, files, puts, clock, lastPut>>

HeadLookup(t) ==
    /\ tasks[t].op = "head" /\ tasks[t].pc = "lookup"
    /\ LET found == Lookup(tasks[t], catalog)
       IN  tasks' = [tasks EXCEPT ![t] =
                        IF found.pc = "found" THEN Finish(found, "Ok") ELSE found]
    /\ UNCHANGED <<catalog, files, puts, clock, lastPut>>

\* ------------------------------------------------- Delete (delete_object)
StartDelete(T, t) ==
    /\ CanStart(T, t)
    /\ \E k \in Keys :
          /\ tasks' = [tasks EXCEPT ![t] = Begin(t, "delete", k, "blob")]
          /\ lastPut' = [lastPut EXCEPT ![k] = NoPut]
    /\ UNCHANGED <<catalog, files, puts, clock>>

\* (the absence of the file is reported as a success)
BlobAbsent_Success(task) == Finish(task, "Ok")

\* delete_object after state.storage.delete(&key).await found no file:
\* FileStorage::delete returns Err(NotFound) and `?` returns it.
BlobAbsent(task) == Finish(task, "NotFound")

\* state.storage.delete(&key).await?: fs::remove_file(&path)
DeleteBlob(t) ==
    /\ tasks[t].op = "delete" /\ tasks[t].pc = "blob"
    /\ LET path == get_object_path(tasks[t].key)
       IN  IF Exists(path)
           THEN /\ files' = [files EXCEPT ![path] = NoFile]
                /\ tasks' = [Orphaned(tasks, files, path) EXCEPT ![t].pc = "meta"]
           ELSE /\ tasks' = [tasks EXCEPT ![t] = BlobAbsent(tasks[t])]
                /\ files' = files
    /\ UNCHANGED <<catalog, puts, clock, lastPut>>

\* fs::remove_file fails for another reason than NotFound: Err(AppError::Io(e))
DeleteBlobFail(t) ==
    /\ tasks[t].op = "delete" /\ tasks[t].pc = "blob"
    /\ tasks' = [tasks EXCEPT ![t] = Finish(@, "Io")]
    /\ UNCHANGED <<catalog, files, puts, clock, lastPut>>

\* state.metadata.delete(&key).await?; if !deleted { return Err(NotFound) }
DeleteMeta(t) ==
    /\ tasks[t].op = "delete" /\ tasks[t].pc = "meta"
    /\ LET deleted == RowsAffected(catalog, tasks[t].key) > 0
       IN  /\ catalog' = DeleteRow(catalog, tasks[t].key)
           /\ tasks' = [tasks EXCEPT ![t] =
                           Finish(@, IF deleted THEN "Ok" ELSE "NotFound")]
           /\ lastPut' = IF deleted
                         THEN [lastPut EXCEPT ![tasks[t].key] =
                                  [res |-> "Deleted", data |-> <<>>]]
                         ELSE lastPut
    /\ UNCHANGED <<files, puts, clock>>

DeleteMetaFail(t) ==
    /\ tasks[t].op = "delete" /\ tasks[t].pc = "meta"
    /\ tasks' = [tasks EXCEPT ![t] = Finish(@, "Database")]
    /\ UNCHANGED <<catalog, files, puts, clock, lastPut>>

\* ------------------------------------------------------------ strings
\* str::starts_with / str::strip_prefix: an exact comparison of the bytes
starts_with(s, p) == Len(p) <= Len(s) /\ SubSeq(s, 1, Len(p)) = p

\* str::ends_with('/')
ends_with_slash(s) == s # <<>> /\ s[Len(s)] = "/"

\* SQLite's LIKE folds the case of ASCII letters.
ToLower(c) == IF c = "A" THEN "a" ELSE c

\* SQLite's `s LIKE pattern` (no ESCAPE clause): % matches any run of
\* characters, _ any one character, any other character itself in either case.
RECURSIVE Like(_, _)
Like(pattern, s) ==
    IF pattern = <<>> THEN s = <<>>
    ELSE IF pattern[1] = "%"
    THEN Like(Tail(pattern), s) \/ (s # <<>> /\ Like(pattern, Tail(s)))
    ELSE /\ s # <<>>
         /\ pattern[1] = "_" \/ ToLower(pattern[1]) = ToLower(s[1])
         /\ Like(Tail(pattern), Tail(s))

\* The BINARY collation of column key: the order of the bytes.
RECURSIVE KeyLess(_, _)
KeyLess(a, b) ==
    IF b = <<>> THEN FALSE
    ELSE IF a = <<>> THEN TRUE
    ELSE IF a[1] = b[1] THEN KeyLess(Tail(a), Tail(b))
    ELSE CharCode(a[1]) < CharCode(b[1])

\* ------------------------------------------------------- catalog queries
\* WHERE key LIKE ?  bound to format!("{}%", prefix)
LikePrefix(cat, prefix) == {r \in cat : Like(prefix \o <<"%">>, r.key)}

\* ORDER BY key
RECURSIVE OrderByKey(_)
OrderByKey(rows) ==
    IF rows = {} THEN <<>>
    ELSE LET first == CHOOSE r \in rows : \A q \in rows : ~KeyLess(q.key, r.key)
         IN  <<first>> \o OrderByKey(rows \ {first})

\* LIMIT ?  (a negative limit is no limit)
Limit(seq, n) == IF n < 0 \/ Len(seq) < n THEN seq ELSE SubSeq(seq, 1, n)

\* limit.unwrap_or(default)
UnwrapOr(opt, default) == IF opt = NoSize THEN default ELSE opt

\* MetadataStore::list(prefix, limit): with no prefix there is no WHERE clause
List(cat, prefix, limit) ==
    Limit(OrderByKey(IF prefix = NoParam THEN cat ELSE LikePrefix(cat, prefix)),
          UnwrapOr(limit, ListLimit))

\* (only the row whose key is the prefix itself)
DeleteByPrefix_Exact(cat, prefix) == {r \in cat : r.key # prefix}

\* MetadataStore::delete_by_prefix: DELETE FROM objects WHERE key LIKE 'prefix%'
DeleteByPrefix(cat, prefix) == cat \ LikePrefix(cat, prefix)

\* result.rows_affected() as i64
PrefixRowsAffected(cat, prefix) == Cardinality(LikePrefix(cat, prefix))

\* ----------------------------------------- folder delete (delete_folder)
\* if !prefix.ends_with('/') { format!("{}/", prefix) } else { prefix }
Normalize(prefix) == IF ends_with_slash(prefix) THEN prefix ELSE prefix \o <<"/">>

StartFolder(T, t) ==
    /\ CanStart(T, t)
    /\ \E p \in Prefixes :
          /\ tasks' = [tasks EXCEPT ![t] =
                       [IdleTask EXCEPT !.op = "folder", !.pc = "list",
                                        !.prefix = Normalize(p),
                                        !.cat0 = catalog, !.fs0 = files]]
          /\ lastPut' = [k \in DOMAIN lastPut |->
                            IF Like(Normalize(p) \o <<"%">>, k) THEN NoPut
                            ELSE lastPut[k]]
    /\ UNCHANGED <<catalog, files, puts, clock>>

\* state.metadata.list(Some(&prefix), None).await? succeeds
FolderList(t) ==
    /\ tasks[t].op = "folder" /\ tasks[t].pc = "list"
    /\ tasks' = [tasks EXCEPT ![t].objects = List(catalog, tasks[t].prefix, NoSize),
                              ![t].pc = "blobs"]
    /\ UNCHANGED <<catalog, files, puts, clock, lastPut>>

FolderListFail(t) ==
    /\ tasks[t].op = "folder" /\ tasks[t].pc = "list"
    /\ tasks' = [tasks EXCEPT ![t] = Finish(@, "Database")]
    /\ UNCHANGED <<catalog, files, puts, clock, lastPut>>

\* One turn of `for obj in &objects { state.storage.delete(&obj.key).await?; }`:
\* fs::remove_file succeeds, or finds no file and `?` returns NotFound.
FolderBlob(t) ==
    /\ tasks[t].op = "folder" /\ tasks[t].pc = "blobs"
    /\ tasks[t].objects # <<>>
    /\ LET path == get_object_path(Head(tasks[t].objects).key)
       IN  IF Exists(path)
           THEN /\ files' = [files EXCEPT ![path] = NoFile]
                /\ tasks' = [Orphaned(tasks, files, path) EXCEPT
                                ![t].objects = Tail(tasks[t].objects)]
           ELSE /\ tasks' = [tasks EXCEPT ![t] = BlobAbsent(tasks[t])]
                /\ files' = files
    /\ UNCHANGED <<catalog, puts, clock, lastPut>>

FolderBlobFail(t) ==
    /\ tasks[t].op = "folder" /\ tasks[t].pc = "blobs"
    /\ tasks[t].objects # <<>>
    /\ tasks' = [tasks EXCEPT ![t] = Finish(@, "Io")]
    /\ UNCHANGED <<catalog, files, puts, clock, lastPut>>

\* state.metadata.delete_by_prefix(&prefix).await? succeeds;
\* Ok(Json({ "success": true, "deleted": deleted }))
FolderRows(t) ==
    /\ tasks[t].op = "folder" /\ tasks[t].pc = "blobs"
    /\ tasks[t].objects = <<>>
    /\ catalog' = DeleteByPrefix(catalog, tasks[t].prefix)
    /\ tasks' = [tasks EXCEPT ![t] =
                    Finish([@ EXCEPT !.deleted =
                                PrefixRowsAffected(catalog, tasks[t].prefix)], "Ok")]
    /\ lastPut' = [k \in DOMAIN lastPut |->
                      IF Get(catalog, k) # Get(catalog', k)
                      THEN [res |-> "Deleted", data |-> <<>>]
                      ELSE lastPut[k]]
    /\ UNCHANGED <<files, puts, clock>>

FolderRowsFail(t) ==
    /\ tasks[t].op = "folder" /\ tasks[t].pc = "blobs"
    /\ tasks[t].objects = <<>>
    /\ tasks' = [tasks EXCEPT ![t] = Finish(@, "Database")]
    /\ UNCHANGED <<catalog, files, puts, clock, lastPut>>

\* ------------------------------------------------------- specifications
\* The steps of a handler when no file or database operation fails; a client
\* that sends an error item, too many bytes, or disconnects is among them.
PutRun(t) ==
    \/ PutCreate(t) \/ PutRecv(t) \/ PutWrite(t) \/ PutFlush(t) \/ PutInsert(t)
    \/ Cancel(t)

ReadRun(t) == GetLookup(t) \/ GetOpen(t) \/ GetStream(t) \/ HeadLookup(t)

DeleteRun(t) == DeleteBlob(t) \/ DeleteMeta(t)

Run(t) == PutRun(t) \/ ReadRun(t) \/ DeleteRun(t) \/ Retire(t)

\* A file or database operation of the handler returns an error.
Fault(t) ==
    \/ PutCreateFail(t) \/ PutWriteFail(t) \/ PutFlushFail(t) \/ PutInsertFail(t)
    \/ DeleteBlobFail(t) \/ DeleteMetaFail(t)

Start(T, t) ==
    \/ StartPut(T, t) \/ StartGet(T, t) \/ StartHead(T, t) \/ StartDelete(T, t)

\* One request at a time: a request starts when no other is in flight.
Next == \E t \in SeqTasks : Start(SeqTasks, t) \/ Run(t) \/ Fault(t)

Spec == Init /\ [][Next]_vars

\* One request at a time, and the disk and the database never fail.
NextNoFault == \E t \in SeqTasks : Start(SeqTasks, t) \/ Run(t)

SpecNoFault == Init /\ [][NextNoFault]_vars

\* ------------------------------------------------- List (list_objects)
\* (the last occurrence instead of the first)
find_Last(s, d) ==
    LET at == {i \in 0..(Len(s) - Len(d)) : SubSeq(s, i + 1, i + Len(d)) = d}
    IN  IF at = {} THEN -1 ELSE CHOOSE i \in at : \A j \in at : j <= i

\* str::find: the byte index of the first occurrence of d in s, or none (-1)
find(s, d) ==
    LET at == {i \in 0..(Len(s) - Len(d)) : SubSeq(s, i + 1, i + Len(d)) = d}
    IN  IF at = {} THEN -1 ELSE CHOOSE i \in at : \A j \in at : i <= j

\* The loop `for obj in objects` of list_objects: what it has put in the
\* HashSet prefixes and the Vec filtered_objects.
RECURSIVE Emulate(_, _, _)
Emulate(objects, prefix, delimiter) ==
    IF objects = <<>> THEN [prefixes |-> {}, filtered_objects |-> <<>>]
    ELSE LET obj == Head(objects)
             more == Emulate(Tail(objects), prefix, delimiter)
         IN  IF ~starts_with(obj.key, prefix) THEN more
             ELSE LET rest == SubSeq(obj.key, Len(prefix) + 1, Len(obj.key))
                      idx == find(rest, delimiter)
                  IN  IF idx >= 0
                      THEN [more EXCEPT !.prefixes =
                               @ \cup {prefix \o SubSeq(rest, 1, idx) \o delimiter}]
                      ELSE [more EXCEPT !.filtered_objects = <<obj>> \o @]

\* prefixes.into_iter().collect(); prefix_vec.sort()
RECURSIVE Sort(_)
Sort(strings) ==
    IF strings = {} THEN <<>>
    ELSE LET first == CHOOSE x \in strings : \A y \in strings : ~KeyLess(y, x)
         IN  <<first>> \o Sort(strings \ {first})

StartList(T, t) ==
    /\ CanStart(T, t)
    /\ \E p \in ListPrefixes, d \in Delimiters, l \in Limits :
          tasks' = [tasks EXCEPT ![t] =
                       [IdleTask EXCEPT !.op = "list", !.pc = "list", !.cat0 = catalog,
                                        !.query = [prefix |-> p, delimiter |-> d,
                                                   limit |-> l]]]
    /\ UNCHANGED <<catalog, files, puts, clock, lastPut>>

\* state.metadata.list(params.prefix, params.limit).await? succeeds; the rest
\* of list_objects up to Ok(Json(ListObjectsResponse { .. }))
ListObjects(t) ==
    /\ tasks[t].op = "list" /\ tasks[t].pc = "list"
    /\ LET q == tasks[t].query
           objects == List(catalog, q.prefix, q.limit)
           delimiter == IF q.delimiter = NoParam THEN <<"/">> ELSE q.delimiter
           prefix == IF q.prefix = NoParam THEN <<>> ELSE q.prefix
           out == Emulate(objects, prefix, delimiter)
       IN  tasks' = [tasks EXCEPT ![t] =
                        Finish([@ EXCEPT !.objects = objects,
                                         !.filtered_objects = out.filtered_objects,
                                         !.total = Len(out.filtered_objects),
                                         !.prefix_vec = Sort(out.prefixes)], "Ok")]
    /\ UNCHANGED <<catalog, files, puts, clock, lastPut>>

ListObjectsFail(t) ==
    /\ tasks[t].op = "list" /\ tasks[t].pc = "list"
    /\ tasks' = [tasks EXCEPT ![t] = Finish(@, "Database")]
    /\ UNCHANGED <<catalog, files, puts, clock, lastPut>>

\* --------------------------------------------- Search (search_objects)
\* The WHERE clause MetadataStore::search assembles: one condition for each
\* parameter that is given, the key pattern bound to format!("%{}%", pattern).
Selected(r, q) ==
    /\ q.key # NoParam => Like(<<"%">> \o q.key \o <<"%">>, r.key)
    /\ q.content_type # NoParam => r.content_type = q.content_type[1]
    /\ q.min_size # NoSize => r.size >= q.min_size
    /\ q.max_size # NoSize => r.size <= q.max_size

\* ORDER BY created_at DESC (the RFC 3339 texts of UTC times are in the order
\* of the times)
RECURSIVE OrderByCreatedAtDesc(_)
OrderByCreatedAtDesc(rows) ==
    IF rows = {} THEN <<>>
    ELSE LET first == CHOOSE r \in rows : \A q \in rows : q.created_at <= r.created_at
         IN  <<first>> \o OrderByCreatedAtDesc(rows \ {first})

\* MetadataStore::search
Search(cat, q) ==
    Limit(OrderByCreatedAtDesc({r \in cat : Selected(r, q)}),
          UnwrapOr(q.limit, SearchLimit))

StartSearch(T, t) ==
    /\ CanStart(T, t)
    /\ \E k \in Patterns, c \in ContentTypes, lo \in MinSizes, hi \in MaxSizes,
          l \in Limits :
          tasks' = [tasks EXCEPT ![t] =
                       [IdleTask EXCEPT !.op = "search", !.pc = "search",
                                        !.cat0 = catalog,
                                        !.query = [key |-> k, content_type |-> c,
                                                   min_size |-> lo, max_size |-> hi,
                                                   limit |-> l]]]
    /\ UNCHANGED <<catalog, files, puts, clock, lastPut>>

\* state.metadata.search(..).await? succeeds; Ok(Json(SearchResponse { objects, total }))
SearchObjects(t) ==
    /\ tasks[t].op = "search" /\ tasks[t].pc = "search"
    /\ LET objects == Search(catalog, tasks[t].query)
       IN  tasks' = [tasks EXCEPT ![t] =
                        Finish([@ EXCEPT !.objects = objects, !.total = Len(objects)],
                               "Ok")]
    /\ UNCHANGED <<catalog, files, puts, clock, lastPut>>

SearchObjectsFail(t) ==
    /\ tasks[t].op = "search" /\ tasks[t].pc = "search"
    /\ tasks' = [tasks EXCEPT ![t] = Finish(@, "Database")]
    /\ UNCHANGED <<catalog, files, puts, clock, lastPut>>

\* ------------------------------------------------------ Stats (get_stats)
\* SQL NULL, apart from every size
Null == -1

\* (the sum as SUM gives it)
Coalesce_Not(value, default) == value

\* COALESCE(value, default)
Coalesce(value, default) == IF value = Null THEN default ELSE value

\* SUM(size): NULL over no rows
RECURSIVE SumSize(_)
SumSize(rows) ==
    IF rows = {} THEN Null
    ELSE LET r == CHOOSE r \in rows : TRUE
         IN  IF rows = {r} THEN r.size ELSE r.size + SumSize(rows \ {r})

\* MetadataStore::get_stats: SELECT COUNT(*), COALESCE(SUM(size), 0) FROM objects
MetadataStats(cat) == <<Cardinality(cat), Coalesce(SumSize(cat), 0)>>

StartStats(T, t) ==
    /\ CanStart(T, t)
    /\ tasks' = [tasks EXCEPT ![t] =
                    [IdleTask EXCEPT !.op = "stats", !.pc = "stats", !.cat0 = catalog]]
    /\ UNCHANGED <<catalog, files, puts, clock, lastPut>>

\* state.metadata.get_stats().await? succeeds; Ok(Json(StatsResponse { .. }))
GetStats(t) ==
    /\ tasks[t].op = "stats" /\ tasks[t].pc = "stats"
    /\ tasks' = [tasks EXCEPT ![t] =
                    Finish([@ EXCEPT !.stats = MetadataStats(catalog)], "Ok")]
    /\ UNCHANGED <<catalog, files, puts, clock, lastPut>>

GetStatsFail(t) ==
    /\ tasks[t].op = "stats" /\ tasks[t].pc = "stats"
    /\ tasks' = [tasks EXCEPT ![t] = Finish(@, "Database")]
    /\ UNCHANGED <<catalog, files, puts, clock, lastPut>>

\* ------------------------------------------------------------- a store
\* The objects earlier Puts stored under StoreKeys: body, content-type header
\* and the time of the Put, which is the id of its record too.
StoredObjects ==
    {[key |-> <<"a", "/", "A">>, body |-> <<1>>, header |-> "text/plain", at |-> 4],
     [key |-> <<"a", "/", "a">>, body |-> <<2, 2>>, header |-> NoHeader, at |-> 2],
     [key |-> <<"a", "/", "b">>, body |-> <<>>, header |-> "text/plain", at |-> 5],
     [key |-> <<"a", "b">>, body |-> <<1, 1>>, header |-> NoHeader, at |-> 1],
     [key |-> <<"A", "/", "b">>, body |-> <<1>>, header |-> NoHeader, at |-> 3]}

\* The record put_object inserted for a stored object.
Row(o) ==
    NewMetadata([key |-> o.key, total_size |-> Len(o.body), header |-> o.header,
                 hasher |-> HasherUpdate(HasherNew, o.body)], o.at)

\* What earlier requests left of a key: nothing, the object (row and blob), a
\* blob alone (a Put that failed on its stream) or a row alone (an overwrite
\* rejected on the cap removed the blob).
Left == {"none", "object", "blob", "row"}

\* A store with objects in it and no request in flight.
StoreInit ==
    /\ \E left \in [StoreKeys -> Left] :
          /\ catalog = {Row(o) : o \in {s \in StoredObjects :
                                            left[s.key] \in {"object", "row"}}}
          /\ files = [p \in StorePaths |->
                         LET o == CHOOSE s \in StoredObjects : get_object_path(s.key) = p
                         IN  IF left[o.key] \in {"object", "blob"} THEN o.body ELSE NoFile]
    /\ tasks = [t \in TaskIds |-> IdleTask]
    /\ puts = Cardinality(StoreKeys)
    /\ clock = Cardinality(StoreKeys)
    /\ lastPut = [k \in Keys |-> NoPut]

FolderRun(t) == FolderList(t) \/ FolderBlob(t) \/ FolderRows(t)

FolderFault(t) == FolderListFail(t) \/ FolderBlobFail(t) \/ FolderRowsFail(t)

\* Folder deletes, lists and searches on a store, one request at a time.
NextStore ==
    \E t \in SeqTasks :
        \/ StartFolder(SeqTasks, t) \/ FolderRun(t) \/ FolderFault(t)
        \/ StartList(SeqTasks, t) \/ ListObjects(t) \/ ListObjectsFail(t)
        \/ StartSearch(SeqTasks, t) \/ SearchObjects(t) \/ SearchObjectsFail(t)
        \/ Retire(t)

SpecStore == StoreInit /\ [][NextStore]_vars

\* The same, and the disk and the database never fail.
NextStoreNoFault ==
    \E t \in SeqTasks :
        \/ StartFolder(SeqTasks, t) \/ FolderRun(t)
        \/ StartList(SeqTasks, t) \/ ListObjects(t)
        \/ StartSearch(SeqTasks, t) \/ SearchObjects(t)
        \/ Retire(t)

SpecStoreNoFault == StoreInit /\ [][NextStoreNoFault]_vars

\* Puts, Deletes, folder deletes and stats from the empty store, one request
\* at a time; of the disk and the database only the stats query fails.
NextStats ==
    \E t \in SeqTasks :
        \/ StartPut(SeqTasks, t) \/ PutRun(t)
        \/ StartDelete(SeqTasks, t) \/ DeleteRun(t)
        \/ StartFolder(SeqTasks, t) \/ FolderRun(t)
        \/ StartStats(SeqTasks, t) \/ GetStats(t) \/ GetStatsFail(t)
        \/ Retire(t)

SpecStats == Init /\ [][NextStats]_vars

\* Two Puts that run concurrently, one for each task; the disk and the
\* database never fail.
NextRace ==
    \E t \in TaskIds :
        \/ puts < Cardinality(TaskIds) /\ StartPut(TaskIds, t)
        \/ PutRun(t)
        \/ Retire(t)

SpecRace == Init /\ [][NextRace]_vars

\* The key that the requests of task t name when each task keeps to a key
\* of its own.
KeyOfTask(t) == IF t = 1 THEN <<"a">> ELSE <<"a", "/", "b">>

\* Two requests that run concurrently on different keys, each a Put, Get,
\* Head or single-key Delete that succeeds or fails on its input or on the
\* state of the store; the disk and the database never fail.
NextMix ==
    \E t \in TaskIds :
        \/ /\ puts < Cardinality(TaskIds)
           /\ StartPut(TaskIds, t) /\ tasks'[t].key = KeyOfTask(t)
        \/ StartGet(TaskIds, t) /\ tasks'[t].key = KeyOfTask(t)
        \/ StartHead(TaskIds, t) /\ tasks'[t].key = KeyOfTask(t)
        \/ StartDelete(TaskIds, t) /\ tasks'[t].key = KeyOfTask(t)
        \/ Run(t)

SpecMix == Init /\ [][NextMix]_vars

\* A Put and a single-key Delete of one key that run concurrently, after an
\* earlier Put of that key or none; the disk and the database never fail.
NextPutDelete ==
    \E t \in TaskIds :
        \/ StartPut(TaskIds, t) /\ tasks'[t].key = KeyOfTask(1)
        \/ StartDelete(TaskIds, t) /\ tasks'[t].key = KeyOfTask(1)
        \/ PutRun(t)
        \/ DeleteRun(t)
        \/ Retire(t)

SpecPutDelete == Init /\ [][NextPutDelete]_vars

\* ------------------------------------------------------------ properties
PathOf(t) == get_object_path(tasks[t].key)
Returned(t, op) == tasks[t].op = op /\ tasks[t].pc = "done"
Quiescent == \A t \in TaskIds : tasks[t].op = "idle"

\* C1: a Put of B under k that succeeds records etag = hash(B) and size = |B|
\* for B the concatenation of its chunks, with |B| <= maxBytes, and a Get of k
\* that follows it with no Put or Delete of k in between returns exactly B
\* with that etag and size.
RoundTrip ==
    \A t \in TaskIds :
        /\ Returned(t, "put") /\ tasks[t].res = "Ok" =>
              /\ Len(tasks[t].sent) <= MaxBytes
              /\ tasks[t].meta.etag = Digest(tasks[t].sent)
              /\ tasks[t].meta.size = Len(tasks[t].sent)
              /\ Get(catalog, tasks[t].key).etag = Digest(tasks[t].sent)
              /\ Get(catalog, tasks[t].key).size = Len(tasks[t].sent)
        /\ Returned(t, "get") /\ lastPut[tasks[t].key].res = "Ok" =>
              /\ tasks[t].res = "Ok"
              /\ tasks[t].body = lastPut[tasks[t].key].data
              /\ tasks[t].meta.etag = Digest(lastPut[tasks[t].key].data)
              /\ tasks[t].meta.size = Len(lastPut[tasks[t].key].data)

\* A Get returned the payload the Put before it received in two chunks.
RoundTripWitness ==
    \E t \in TaskIds :
        /\ Returned(t, "get") /\ tasks[t].res = "Ok"
        /\ lastPut[tasks[t].key].res = "Ok"
        /\ tasks[t].body = <<1, 1>>
        /\ <<1, 1>> \notin Chunks

\* C2: with no request in flight, every catalog record has a blob file at
\* locate(record.key), and its size and etag are the length and the hash of
\* the bytes in that file.
CatalogReflectsBlob ==
    Quiescent =>
        \A r \in catalog :
            LET path == get_object_path(r.key)
            IN  /\ Exists(path)
                /\ r.size = Len(files[path])
                /\ r.etag = Digest(files[path])

\* C3: a Put whose stream write failed has changed nothing in the catalog
\* and returns the error write_stream returned.
WriteFailureLeavesCatalog ==
    \A t \in TaskIds :
        Returned(t, "put") /\ tasks[t].ws \notin {"Ok", "none"} =>
            /\ catalog = tasks[t].cat0
            /\ tasks[t].res = tasks[t].ws

\* A Put to a key the catalog holds was rejected on the cap.
WriteFailureWitness ==
    \E t \in TaskIds :
        /\ Returned(t, "put") /\ tasks[t].ws = "PayloadTooLarge"
        /\ Get(tasks[t].cat0, tasks[t].key) # NoRec
        /\ tasks[t].res = "PayloadTooLarge"

\* The key held a stored object when the request of task t started.
HeldObject(t) ==
    /\ Get(tasks[t].cat0, tasks[t].key) # NoRec
    /\ tasks[t].blob0 # NoFile
    /\ Get(tasks[t].cat0, tasks[t].key).etag = Digest(tasks[t].blob0)

\* C4: after a failed Put to a key that held a stored object (R, B), the
\* catalog still holds R for the key and the blob still contains exactly B.
FailedOverwriteKeepsObject ==
    \A t \in TaskIds :
        Returned(t, "put") /\ tasks[t].ws \notin {"Ok", "none"} /\ HeldObject(t) =>
            /\ Get(catalog, tasks[t].key) = Get(tasks[t].cat0, tasks[t].key)
            /\ files[PathOf(t)] = tasks[t].blob0

\* C5: a Put whose stream delivered more than maxBytes bytes returns
\* PayloadTooLarge and leaves no blob file at locate(k), and a Get of k
\* that follows it is NotFound and carries no bytes.
CapEnforced ==
    \A t \in TaskIds :
        /\ Returned(t, "put") /\ Len(tasks[t].sent) > MaxBytes =>
              /\ tasks[t].res = "PayloadTooLarge"
              /\ ~Exists(PathOf(t))
        /\ Returned(t, "get") /\ lastPut[tasks[t].key].res = "PayloadTooLarge" =>
              /\ tasks[t].res = "NotFound"
              /\ tasks[t].body = <<>>

\* A Get followed a rejected overwrite of a stored object.
CapEnforcedWitness ==
    \E t \in TaskIds :
        /\ Returned(t, "get") /\ lastPut[tasks[t].key].res = "PayloadTooLarge"
        /\ tasks[t].meta # NoRec
        /\ tasks[t].res = "NotFound"

\* C6: a Put never has more than maxBytes bytes written; a stream of exactly
\* maxBytes bytes is not rejected; the chunk that is rejected is the one that
\* exceeds the cap, and none of its bytes are written.
CapIsHardCeiling ==
    \A t \in TaskIds :
        tasks[t].op = "put" =>
            /\ tasks[t].written <= MaxBytes
            /\ tasks[t].fd = "linked" => Len(files[PathOf(t)]) <= MaxBytes
            /\ tasks[t].pc = "write" =>
                  tasks[t].total_size + Len(tasks[t].chunk) <= MaxBytes
            /\ Len(tasks[t].sent) <= MaxBytes => tasks[t].ws # "PayloadTooLarge"
            /\ tasks[t].ws = "PayloadTooLarge" =>
                  /\ tasks[t].written = tasks[t].total_size
                  /\ tasks[t].total_size + Len(tasks[t].chunk) > MaxBytes
                  /\ Len(tasks[t].sent) = tasks[t].total_size + Len(tasks[t].chunk)

\* A stream of exactly maxBytes bytes in two chunks was written and flushed.
CapIsHardCeilingWitness ==
    \E t \in TaskIds :
        /\ tasks[t].op = "put" /\ tasks[t].ws = "Ok"
        /\ tasks[t].sent = <<1, 1>>
        /\ tasks[t].written = MaxBytes

\* C7: after a failed Put to a key with no prior object there is no catalog
\* row for the key and no blob file at locate(k).
FailedUploadLeavesNothing ==
    \A t \in TaskIds :
        /\ Returned(t, "put") /\ tasks[t].res # "Ok"
        /\ Get(tasks[t].cat0, tasks[t].key) = NoRec
        /\ tasks[t].blob0 = NoFile
        => /\ Get(catalog, tasks[t].key) = NoRec
           /\ ~Exists(PathOf(t))

\* C8: once an upload is cancelled after its file was created, no blob file
\* is left at locate(k).
CancelRemovesPartial ==
    \A t \in TaskIds :
        tasks[t].op = "put" /\ tasks[t].pc = "cancelled" => ~Exists(PathOf(t))

\* C9: a Get or Head of a key with no catalog record returns NotFound and has
\* not opened the blob, also when a blob file exists at locate(k); no step of
\* a Get or Head changes the catalog or the blob files.
CatalogIsAuthoritative ==
    [][\A t \in TaskIds :
          tasks[t].op \in {"get", "head"} /\ tasks'[t] # tasks[t] =>
              /\ catalog' = catalog
              /\ files' = files
              /\ Get(catalog, tasks[t].key) = NoRec /\ tasks[t].pc = "lookup" =>
                    /\ tasks'[t].pc = "done"
                    /\ tasks'[t].res = "NotFound"
                    /\ ~tasks'[t].opened
              /\ tasks'[t].opened => tasks'[t].meta # NoRec]_vars

\* A Get of a key with an orphaned blob file and no record returned NotFound.
CatalogIsAuthoritativeWitness ==
    \E t \in TaskIds :
        /\ Returned(t, "get") /\ tasks[t].res = "NotFound"
        /\ Get(catalog, tasks[t].key) = NoRec
        /\ Exists(PathOf(t))
        /\ ~tasks[t].opened

\* C10: a Delete of a key whose record exists and whose blob file is absent
\* removes the row and reports success (an I/O or database failure apart);
\* it reports NotFound only when the row is absent too.
DeleteToleratesAbsentBlob ==
    \A t \in TaskIds :
        Returned(t, "delete") /\ tasks[t].res \notin {"Io", "Database"} =>
            /\ Get(tasks[t].cat0, tasks[t].key) # NoRec /\ tasks[t].blob0 = NoFile =>
                  /\ tasks[t].res = "Ok"
                  /\ Get(catalog, tasks[t].key) = NoRec
            /\ tasks[t].res = "NotFound" => Get(tasks[t].cat0, tasks[t].key) = NoRec

\* C11: a Delete of a key that held a stored object succeeds and leaves neither
\* the blob file nor the catalog row (an I/O or database failure apart); a Get
\* of the key that follows it is NotFound and a Delete of the key that follows
\* it is NotFound and changes nothing; on a fresh store a Delete is NotFound
\* and changes nothing.
DeleteThenDelete ==
    \A t \in TaskIds :
        /\ Returned(t, "delete") /\ tasks[t].res \notin {"Io", "Database"} =>
              /\ HeldObject(t) =>
                    /\ tasks[t].res = "Ok"
                    /\ ~Exists(PathOf(t))
                    /\ Get(catalog, tasks[t].key) = NoRec
              /\ tasks[t].last0.res = "Deleted" =>
                    /\ tasks[t].res = "NotFound"
                    /\ catalog = tasks[t].cat0
                    /\ ~Exists(PathOf(t))
              /\ puts = 0 =>
                    /\ tasks[t].res = "NotFound"
                    /\ catalog = {}
                    /\ \A p \in DOMAIN files : ~Exists(p)
        /\ Returned(t, "get") /\ tasks[t].last0.res = "Deleted" =>
              tasks[t].res = "NotFound"

\* A second Delete of a key followed the Delete that removed its object.
DeleteThenDeleteWitness ==
    \E t \in TaskIds :
        /\ Returned(t, "delete") /\ tasks[t].last0.res = "Deleted"
        /\ tasks[t].res = "NotFound"
        /\ puts > 0

\* The rows of the keys that start with the prefix, compared byte by byte.
Under(cat, prefix) == {r \in cat : starts_with(r.key, prefix)}

\* C12: after a successful folder delete no catalog record whose key starts
\* with the normalized prefix remains and the count returned is the number of
\* rows removed; when no row matches, the folder delete succeeds with count 0
\* (a database failure apart).
FolderDeleteComplete ==
    \A t \in TaskIds :
        Returned(t, "folder") =>
            /\ ends_with_slash(tasks[t].prefix)
            /\ tasks[t].res = "Ok" =>
                  /\ Under(catalog, tasks[t].prefix) = {}
                  /\ catalog \subseteq tasks[t].cat0
                  /\ tasks[t].deleted = Cardinality(tasks[t].cat0 \ catalog)
            /\ LikePrefix(tasks[t].cat0, tasks[t].prefix) = {}
               /\ tasks[t].res # "Database" =>
                  /\ tasks[t].res = "Ok"
                  /\ tasks[t].deleted = 0
                  /\ catalog = tasks[t].cat0

\* A folder delete removed the two rows under its prefix and kept others.
FolderDeleteCompleteWitness ==
    \E t \in TaskIds :
        /\ Returned(t, "folder") /\ tasks[t].res = "Ok"
        /\ tasks[t].deleted = 2
        /\ Cardinality(Under(tasks[t].cat0, tasks[t].prefix)) = 2
        /\ catalog # {}

\* C13: a folder delete leaves the record and the blob of every key that does
\* not start, byte for byte, with the normalized prefix as they were.
FolderDeleteFrame ==
    \A t \in TaskIds :
        Returned(t, "folder") =>
            \A k \in StoreKeys \cup Keys :
                ~starts_with(k, tasks[t].prefix) =>
                    /\ Get(catalog, k) = Get(tasks[t].cat0, k)
                    /\ get_object_path(k) \in DOMAIN files =>
                          files[get_object_path(k)] = tasks[t].fs0[get_object_path(k)]

\* C14: a folder delete does not fail on an enumerated record that has no blob
\* file (an I/O or database failure apart): it returns success, no blob of a
\* row under the prefix is left, all those rows are removed and counted.
FolderDeleteBestEffort ==
    \A t \in TaskIds :
        Returned(t, "folder") /\ tasks[t].res \notin {"Io", "Database"} =>
            /\ tasks[t].res = "Ok"
            /\ Under(catalog, tasks[t].prefix) = {}
            /\ \A r \in Under(tasks[t].cat0, tasks[t].prefix) :
                  ~Exists(get_object_path(r.key))
            /\ tasks[t].deleted >= Cardinality(Under(tasks[t].cat0, tasks[t].prefix))

\* C15: after a successful folder delete the blob file of every row it
\* removed has been removed too, however many rows matched (stated for the
\* folder deletes whose LIKE pattern matched only keys under the prefix).
FolderDeleteNoOrphan ==
    \A t \in TaskIds :
        /\ Returned(t, "folder") /\ tasks[t].res = "Ok"
        /\ LikePrefix(tasks[t].cat0, tasks[t].prefix) = Under(tasks[t].cat0, tasks[t].prefix)
        => \A r \in tasks[t].cat0 \ catalog : ~Exists(get_object_path(r.key))

Range(seq) == {seq[i] : i \in 1..Len(seq)}

\* d occurs in s at byte index i
OccursAt(s, d, i) == i + Len(d) <= Len(s) /\ SubSeq(s, i + 1, i + Len(d)) = d
Contains(s, d) == \E i \in 0..Len(s) : OccursAt(s, d, i)

\* the part of s before the first occurrence of d
BeforeFirst(s, d) ==
    LET i == CHOOSE i \in 0..Len(s) :
                 OccursAt(s, d, i) /\ \A j \in 0..(i - 1) : ~OccursAt(s, d, j)
    IN  SubSeq(s, 1, i)

Remainder(key, prefix) == SubSeq(key, Len(prefix) + 1, Len(key))

\* C16: for the records the catalog scan returned, with P the prefix (default
\* empty) and D the delimiter (default "/"): a record is in objects iff its
\* key starts with P and the remainder has no D; prefixes holds exactly
\* P + (the remainder up to its first D) + D of the records whose remainder
\* has a D, in strictly ascending order; total is the length of objects.
ListEmulation ==
    \A t \in TaskIds :
        Returned(t, "list") /\ tasks[t].res = "Ok" =>
            LET q == tasks[t].query
                P == IF q.prefix = NoParam THEN <<>> ELSE q.prefix
                D == IF q.delimiter = NoParam THEN <<"/">> ELSE q.delimiter
                under == {r \in Range(tasks[t].objects) : starts_with(r.key, P)}
                out == tasks[t].filtered_objects
                folders == tasks[t].prefix_vec
            IN  /\ Range(tasks[t].objects) \subseteq tasks[t].cat0
                /\ Range(out) = {r \in under : ~Contains(Remainder(r.key, P), D)}
                /\ Cardinality(Range(out)) = Len(out)
                /\ Range(folders) =
                      {P \o BeforeFirst(Remainder(r.key, P), D) \o D :
                          r \in {u \in under : Contains(Remainder(u.key, P), D)}}
                /\ \A i \in 1..(Len(folders) - 1) : KeyLess(folders[i], folders[i + 1])
                /\ tasks[t].total = Len(out)

\* A list of the whole catalog gave two folders, in order, and a leaf.
ListEmulationWitness ==
    \E t \in TaskIds :
        /\ Returned(t, "list") /\ tasks[t].res = "Ok"
        /\ tasks[t].prefix_vec = << <<"A", "/">>, <<"a", "/">> >>
        /\ tasks[t].total = 1
        /\ Len(tasks[t].objects) = 5

\* The criteria of a search as the bytes of the key and the fields say.
Qualifies(r, q) ==
    /\ q.key # NoParam => Contains(r.key, q.key)
    /\ q.content_type # NoParam => r.content_type = q.content_type[1]
    /\ q.min_size # NoSize => r.size >= q.min_size
    /\ q.max_size # NoSize => r.size <= q.max_size

\* C17: a search returns at most limit (default SearchLimit) records, in
\* descending created_at order, and when the catalog has at most limit records
\* that satisfy every criterion given, it returns exactly those.
SearchConjunction ==
    \A t \in TaskIds :
        Returned(t, "search") /\ tasks[t].res = "Ok" =>
            LET q == tasks[t].query
                limit == UnwrapOr(q.limit, SearchLimit)
                match == {r \in tasks[t].cat0 : Qualifies(r, q)}
                out == tasks[t].objects
            IN  /\ Len(out) <= limit
                /\ \A i \in 1..(Len(out) - 1) : out[i].created_at > out[i + 1].created_at
                /\ Cardinality(match) <= limit => Range(out) = match
                /\ tasks[t].total = Len(out)

RECURSIVE SizeOfKeys(_, _)
SizeOfKeys(cat, keys) ==
    IF keys = {} THEN 0
    ELSE LET k == CHOOSE k \in keys : TRUE
         IN  Get(cat, k).size + SizeOfKeys(cat, keys \ {k})

\* C18: stats returns the number of keys that have a record and the sum of
\* their sizes, (0, 0) on an empty catalog; a key whose last Put succeeded
\* counts once with the size of that Put, a key deleted since (by Delete or
\* folder delete) does not count.
StatsReflectCatalog ==
    \A t \in TaskIds :
        Returned(t, "stats") /\ tasks[t].res = "Ok" =>
            LET live == {k \in Keys \cup StoreKeys : Get(catalog, k) # NoRec}
            IN  /\ tasks[t].stats = <<Cardinality(live), SizeOfKeys(catalog, live)>>
                /\ catalog = {} => tasks[t].stats = <<0, 0>>
                /\ \A k \in DOMAIN lastPut :
                      /\ lastPut[k].res = "Ok" =>
                            /\ Cardinality({r \in catalog : r.key = k}) = 1
                            /\ Get(catalog, k).size = Len(lastPut[k].data)
                      /\ lastPut[k].res = "Deleted" => k \notin live

\* Stats counted an overwritten key once, with the size of the second Put.
StatsReflectCatalogWitness ==
    \E t \in TaskIds :
        /\ Returned(t, "stats") /\ tasks[t].res = "Ok"
        /\ tasks[t].stats = <<1, 2>>
        /\ \E r \in catalog :
              /\ r.created_at = 2 /\ r.size = 2
              /\ lastPut[r.key].res = "Ok"

\* C19: when a Put has returned its record, the catalog holds exactly one
\* record for the key and it is the record returned, field by field (id,
\* size, content_type, etag, created_at), also when the key existed before.
UpsertReplaces ==
    \A t \in TaskIds :
        Returned(t, "put") /\ tasks[t].res = "Ok" =>
            /\ Cardinality({r \in catalog : r.key = tasks[t].key}) = 1
            /\ Get(catalog, tasks[t].key) = tasks[t].meta

\* C20: when two Puts to the same key have both returned success, the catalog
\* holds exactly one record for the key and its etag and size are those of
\* the payload of the Put whose upsert ran last.
LastUpsertWins ==
    \A t, u \in TaskIds :
        /\ t # u /\ tasks[t].key = tasks[u].key
        /\ Returned(t, "put") /\ tasks[t].res = "Ok"
        /\ Returned(u, "put") /\ tasks[u].res = "Ok"
        => LET k == tasks[t].key
           IN  /\ lastPut[k].res = "Ok"
               /\ Cardinality({r \in catalog : r.key = k}) = 1
               /\ Get(catalog, k).etag = Digest(lastPut[k].data)
               /\ Get(catalog, k).size = Len(lastPut[k].data)
               /\ \E w \in {t, u} :
                     /\ tasks[w].sent = lastPut[k].data
                     /\ Get(catalog, k).etag = tasks[w].meta.etag
                     /\ Get(catalog, k).created_at = tasks[w].meta.created_at

\* Two Puts of different payloads to one key ran interleaved, and the one
\* whose write finished first made its upsert last.
LastUpsertWinsWitness ==
    \E t, u \in TaskIds :
        /\ t # u /\ tasks[t].key = tasks[u].key
        /\ Returned(t, "put") /\ tasks[t].res = "Ok"
        /\ Returned(u, "put") /\ tasks[u].res = "Ok"
        /\ tasks[t].sent = <<1>> /\ tasks[u].sent = <<2, 2>>
        /\ tasks[t].meta.created_at < tasks[u].meta.created_at
        /\ lastPut[tasks[t].key].data = <<1>>
        /\ Get(catalog, tasks[t].key).size = 1

\* The Put of task t has not come to the end of write_stream: it is creating
\* the file, receiving or writing chunks, flushing, or was cancelled there.
Streaming(t) ==
    /\ tasks[t].op = "put"
    /\ \/ tasks[t].pc \in {"create", "recv", "write", "flush"}
       \/ tasks[t].pc = "cancelled" /\ tasks[t].ws = "none"

\* C21: while a Put is creating, receiving, writing or flushing, or has been
\* cancelled there, the catalog is as it was when the Put began and its step
\* leaves it so; the step of a Put that changes the catalog is taken after
\* write_stream returned Ok, with every byte received written and the file
\* closed, and ends the Put.
PutOrdering ==
    [][\A t \in TaskIds :
          tasks[t].op = "put" /\ tasks'[t] # tasks[t] =>
              /\ Streaming(t) => catalog = tasks[t].cat0 /\ catalog' = catalog
              /\ catalog' # catalog =>
                    /\ tasks[t].pc = "insert" /\ tasks[t].ws = "Ok"
                    /\ tasks[t].fd = "closed"
                    /\ tasks[t].written = Len(tasks[t].sent)
                    /\ tasks[t].meta.size = Len(tasks[t].sent)
                    /\ tasks'[t].pc = "done"]_vars

\* A Put that overwrites a stored object was cancelled after it wrote a chunk.
PutOrderingWitness ==
    \E t \in TaskIds :
        /\ Streaming(t) /\ tasks[t].pc = "cancelled"
        /\ tasks[t].written > 0
        /\ Get(catalog, tasks[t].key) # NoRec
        /\ catalog = tasks[t].cat0

\* C22: a step of a Put, Get, Head or single-key Delete of one key, whether
\* the operation goes on to succeed or fail and whatever the other task is
\* doing, leaves the catalog record and the blob file of every other key
\* exactly as they were.
DistinctKeysFrame ==
    [][\A t \in TaskIds :
          tasks'[t] # tasks[t] =>
              LET k1 == IF tasks[t].op = "idle" THEN tasks'[t].key ELSE tasks[t].key
              IN  \A k2 \in Keys \ {k1} :
                      /\ Get(catalog', k2) = Get(catalog, k2)
                      /\ files'[get_object_path(k2)] = files[get_object_path(k2)]]_vars

\* One task has deleted the object of its key while the other task is in the
\* middle of a Put of a different key and has written bytes to its file.
DistinctKeysFrameWitness ==
    \E t, u \in TaskIds :
        /\ Returned(t, "delete") /\ tasks[t].res = "Ok"
        /\ tasks[u].op = "put" /\ tasks[u].pc = "recv" /\ tasks[u].written > 0
        /\ tasks[u].key # tasks[t].key
        /\ Get(catalog, tasks[t].key) = NoRec
        /\ files[PathOf(u)] # NoFile

\* C23: the scan of the catalog made for a listing returns the first
\* min(limit, number of matches) records, in ascending key order, of the
\* records whose key starts with the prefix as an exact string (of all the
\* records when no prefix is given), the limit being ListLimit when omitted.
ListByPrefixExact ==
    \A t \in TaskIds :
        Returned(t, "list") /\ tasks[t].res = "Ok" =>
            LET q == tasks[t].query
                matches == IF q.prefix = NoParam THEN tasks[t].cat0
                           ELSE Under(tasks[t].cat0, q.prefix)
            IN  tasks[t].objects =
                    Limit(OrderByKey(matches), UnwrapOr(q.limit, ListLimit))

\* C24: once two concurrent Puts of one key (neither began after the other
\* had upserted the record), each of which succeeded or was rejected on the
\* cap, have both returned and nothing else runs, a catalog record of the key
\* implies that its blob file exists, that the bytes of the file are the
\* payload of one of the successful Puts, and that their hash and length are
\* the etag and the size of the record.
ConcurrentPutsConsistent ==
    \A k \in Keys :
        (/\ \A t \in TaskIds :
                /\ Returned(t, "put") /\ tasks[t].key = k
                /\ tasks[t].res \in {"Ok", "PayloadTooLarge"}
                /\ Get(tasks[t].cat0, k) = NoRec
         /\ Get(catalog, k) # NoRec)
        => LET blob == files[get_object_path(k)]
           IN  /\ blob # NoFile
               /\ \E t \in TaskIds : tasks[t].res = "Ok" /\ blob = tasks[t].sent
               /\ Get(catalog, k).etag = Digest(blob)
               /\ Get(catalog, k).size = Len(blob)

\* C25: after a Put that succeeded and a single-key Delete of the same key
\* that began before the Put upserted its record have both returned, the
\* catalog record and the blob file of the key both exist or neither exists.
PutDeleteConsistent ==
    \A t, u \in TaskIds :
        (/\ Returned(t, "put") /\ Returned(u, "delete")
         /\ tasks[t].key = tasks[u].key
         /\ tasks[t].res = "Ok"
         /\ LET was == Get(tasks[u].cat0, tasks[t].key)
            IN  was = NoRec \/ was.created_at # tasks[t].meta.created_at)
        => (Get(catalog, tasks[t].key) # NoRec <=> files[PathOf(t)] # NoFile)

\* C26: when the catalog holds a record of the key and no blob file is at its
\* path, Get returns NotFound after it tried to open the file, Head returns
\* the record, and neither changes the catalog.
CatalogOnlyDrift ==
    \A t \in TaskIds :
        LET row == Get(tasks[t].cat0, tasks[t].key)
        IN  row # NoRec /\ tasks[t].blob0 = NoFile =>
                /\ Returned(t, "get") =>
                      /\ tasks[t].res = "NotFound" /\ tasks[t].opened
                      /\ tasks[t].body = <<>>
                      /\ catalog = tasks[t].cat0
                /\ Returned(t, "head") =>
                      /\ tasks[t].res = "Ok" /\ tasks[t].meta = row
                      /\ catalog = tasks[t].cat0

\* A Get has returned NotFound for a key that has a record and no blob file.
CatalogOnlyDriftWitness ==
    \E t \in TaskIds :
        /\ Returned(t, "get") /\ tasks[t].res = "NotFound"
        /\ Get(tasks[t].cat0, tasks[t].key) # NoRec
        /\ tasks[t].blob0 = NoFile
        /\ Get(catalog, tasks[t].key) # NoRec

====
